---- MODULE Spec2Model ----
(***************************************************************************)
(* KeyPress Pattern Analyzer (src/script.js): the capture state machine,   *)
(* the metric extractor, the digraph accumulator and the profile store.    *)
(*                                                                         *)
(* JavaScript values are modelled as follows.                              *)
(*  - A string is a tuple of one-character strings (<<"a","s">> is "as"),  *)
(*    so that slice, trim, split and + are computed, not assumed.          *)
(*  - A number produced by a division is an exact rational [n, d] in       *)
(*    lowest terms; Math.sqrt(q) is the symbolic value [sqrt |-> q].       *)
(*  - Arrays and objects that the code shares by reference (state.events,  *)
(*    the per-digraph sample objects) live in `heap`, addressed by         *)
(*    integer references; unreachable objects are collected.               *)
(*  - state.keyStates (a Map) is the set of its entries, each a code with *)
(*    its {downTime, key};                                                 *)
(*    state.digraphs (a Map) is the sequence of its entries in insertion   *)
(*    order, each entry a key and a reference to its sample object.        *)
(*  - performance.now() is the variable `now`, advanced by Tick.           *)
(***************************************************************************)
EXTENDS Integers, Sequences, FiniteSets, TLC

\* ---------------------------------------------------------------- bounds
\* performance.now() is explored up to MaxTime milliseconds in SpecCapture
\* and up to MaxStoreTime in Spec.
MaxTime == 2
MaxStoreTime == 1
\* The profile store is explored up to MaxProfiles profiles.
MaxProfiles == 2
\* SpecCapture explores up to MaxKeyEvents key events that change the
\* state, Spec up to MaxStoreKeyEvents.
MaxKeyEvents == 5
MaxStoreKeyEvents == 2
\* SpecDigraphs explores up to MaxDigraphKeyEvents key events.
MaxDigraphKeyEvents == 4
\* Key events of the sessions saved to a full store.
MaxSavedKeyEvents == 3
\* Key events of the sessions typed on the keyboard of SpecKeyboard.
MaxTypedKeyEvents == 5
\* Stored sessions have dwell and flight times up to MaxStoredTime.
MaxStoredTime == 3

\* The event limit of handleKeyDown (script.js:923,
\* `state.events.length < 10000`), scaled down so that a session can
\* reach it.
EventLimit == 4

\* The profile limit of loadProfiles (script.js:1833, `.slice(0, 50)`),
\* scaled down so that a store can exceed it.
ProfileLimit == 3

\* ------------------------------------------------------ program constants
\* script.js:911 `e.code.slice(0, 50)`
CodeSlice == 50
\* script.js:912 `e.key.slice(0, 10)`
KeySlice == 10
\* script.js:1794 `rawName.trim().slice(0, 50)`
NameSlice == 50
\* script.js:1051 `durationMs / 60000`
MsPerMinute == 60000

\* ----------------------------------------------------------------- inputs
\* KeyboardEvent (code, key) pairs delivered to the editor; one physical
\* code may report different keys.
KeyInputs ==
    { [code |-> <<"K","1">>, key |-> <<"a">>],
      [code |-> <<"K","2">>, key |-> <<"a","a">>] }
\* Texts the user may leave in the editor.
EditorTexts == { <<"w">> }
\* Answers to prompt('Enter profile name:'): cancelled (null) or a text.
PromptAnswers ==
    { [cancelled |-> TRUE,  text |-> <<>>],
      [cancelled |-> FALSE, text |-> <<>>],
      [cancelled |-> FALSE, text |-> <<"p">>],
      [cancelled |-> FALSE, text |-> <<"<">>] }

Unknown == <<"U","n","k","n","o","w","n">>
Whitespace == {" "}
NameStripped == {"<", ">", "\"", "/", "\\", "&"}

\* ------------------------------------------------------- string helpers
Min(a, b) == IF a <= b THEN a ELSE b

\* String.prototype.slice(0, n)
Slice(s, n) == SubSeq(s, 1, Min(Len(s), n))

RECURSIVE TrimStart(_)
TrimStart(s) ==
    IF s # <<>> /\ Head(s) \in Whitespace THEN TrimStart(Tail(s)) ELSE s

RECURSIVE TrimEnd(_)
TrimEnd(s) ==
    IF s # <<>> /\ s[Len(s)] \in Whitespace
    THEN TrimEnd(SubSeq(s, 1, Len(s) - 1)) ELSE s

\* String.prototype.trim()
Trim(s) == TrimEnd(TrimStart(s))

\* Faulty variant: nothing is removed from the name.
StripNameCharsNone(s) == s

\* s.replace(/[<>"/\\&]/g, '')
StripNameChars(s) == SelectSeq(s, LAMBDA c : c \notin NameStripped)

\* s.split(/\s+/).length: one more than the number of whitespace runs.
SplitCount(s) ==
    1 + Cardinality({ i \in 1..Len(s) :
                        /\ s[i] \in Whitespace
                        /\ (i = 1 \/ s[i - 1] \notin Whitespace) })

\* The k-th smallest element of a set of integers.
NthOf(S, k) == CHOOSE x \in S : Cardinality({ y \in S : y <= x }) = k

\* ----------------------------------------------------- number helpers
RECURSIVE GCD(_, _)
GCD(a, b) == IF b = 0 THEN a ELSE GCD(b, a % b)

Abs(x) == IF x < 0 THEN -x ELSE x

\* The rational n/d (d > 0) in lowest terms.
Rat(n, d) ==
    LET g == GCD(Abs(n), d) IN [n |-> n \div g, d |-> d \div g]

ToRat(i) == [n |-> i, d |-> 1]
RatAdd(p, q) == Rat(p.n * q.d + q.n * p.d, p.d * q.d)
RatSub(p, q) == Rat(p.n * q.d - q.n * p.d, p.d * q.d)
RatMul(p, q) == Rat(p.n * q.n, p.d * q.d)
Zero == ToRat(0)

\* The largest r in lo..hi with r * r <= k.
RECURSIVE SqrtSearch(_, _, _)
SqrtSearch(k, lo, hi) ==
    IF lo = hi THEN lo
    ELSE LET mid == (lo + hi + 1) \div 2
         IN IF mid * mid <= k THEN SqrtSearch(k, mid, hi) ELSE SqrtSearch(k, lo, mid - 1)

IntSqrt(k) == SqrtSearch(k, 0, Min(k, 46340))
IsSquare(k) == IntSqrt(k) * IntSqrt(k) = k

\* Math.sqrt of a rational q >= 0: the rational root when there is one,
\* otherwise the symbolic value [sqrt |-> q].
Sqrt(q) ==
    IF IsSquare(q.n) /\ IsSquare(q.d)
    THEN [n |-> IntSqrt(q.n), d |-> IntSqrt(q.d)]
    ELSE [sqrt |-> q]

RECURSIVE SumRat(_)
SumRat(arr) == IF arr = <<>> THEN Zero ELSE RatAdd(Head(arr), SumRat(Tail(arr)))

\* The samples of a list as rationals.
ToRats(s) == [i \in 1..Len(s) |-> ToRat(s[i])]

\* script.js average(arr), over numbers given as rationals.
average(arr) ==
    IF Len(arr) = 0 THEN Zero
    ELSE LET s == SumRat(arr) IN Rat(s.n, s.d * Len(arr))

\* Faulty variant: the sample deviation, dividing by n - 1.
standardDeviationSample(arr) ==
    IF Len(arr) = 0 THEN Zero
    ELSE IF Len(arr) = 1 THEN [nan |-> TRUE]
    ELSE LET avg == average(arr)
             squareDiffs == [i \in 1..Len(arr) |->
                               RatMul(RatSub(arr[i], avg), RatSub(arr[i], avg))]
             total == SumRat(squareDiffs)
         IN Sqrt(Rat(total.n, total.d * (Len(arr) - 1)))

\* script.js standardDeviation(arr)
standardDeviation(arr) ==
    IF Len(arr) = 0 THEN Zero
    ELSE LET avg == average(arr)
             squareDiffs == [i \in 1..Len(arr) |->
                               RatMul(RatSub(arr[i], avg), RatSub(arr[i], avg))]
         IN Sqrt(average(squareDiffs))

\* script.js calculateWPM(text, durationMs); Math.round rounds halves up.
calculateWPM(text, durationMs) ==
    LET words == SplitCount(Trim(text))
    IN IF durationMs > 0
       THEN (2 * words * MsPerMinute + durationMs) \div (2 * durationMs)
       ELSE 0

\* ------------------------------------------- numbers of the assessment
\* Besides rationals [n, d] and roots [sqrt |-> q], the assessment
\* produces NaN (0 / 0), +-Infinity (x / 0) and values a + sgn * sqrt(s)
\* (such as 100 - cv), written [a, sgn, s] with a and s rational.
NaN == [nan |-> TRUE]
Infinity(sgn) == [inf |-> sgn]

IsRat(x) == DOMAIN x = {"n", "d"}
IsRoot(x) == DOMAIN x = {"sqrt"}
IsNaN(x) == x = NaN
\* Number.isFinite
IsFinite(x) == ~IsNaN(x) /\ DOMAIN x # {"inf"}

RatNeg(p) == [n |-> -p.n, d |-> p.d]
RatLess(p, q) == p.n * q.d < q.n * p.d
RatAbs(p) == [n |-> Abs(p.n), d |-> p.d]
\* p / q for q # 0
RatDiv(p, q) ==
    IF q.n > 0 THEN Rat(p.n * q.d, p.d * q.n) ELSE Rat(-(p.n * q.d), p.d * (-q.n))

\* A finite number as a + sgn * sqrt(s).
Gen(x) ==
    IF IsRat(x) THEN [a |-> x, sgn |-> 1, s |-> Zero]
    ELSE IF IsRoot(x) THEN [a |-> Zero, sgn |-> 1, s |-> x.sqrt]
    ELSE x

\* The canonical form of a + sgn * sqrt(s).
Norm(g) ==
    IF IsSquare(g.s.n) /\ IsSquare(g.s.d)
    THEN LET r == [n |-> IntSqrt(g.s.n), d |-> IntSqrt(g.s.d)]
         IN IF g.sgn = 1 THEN RatAdd(g.a, r) ELSE RatSub(g.a, r)
    ELSE IF g.a = Zero /\ g.sgn = 1 THEN [sqrt |-> g.s]
    ELSE g

\* x * x and the sign of a rational or a root.
Sq(x) == IF IsRat(x) THEN RatMul(x, x) ELSE x.sqrt
Sign(x) == IF IsRat(x) THEN (IF x.n > 0 THEN 1 ELSE IF x.n < 0 THEN -1 ELSE 0) ELSE 1

\* x / y of JavaScript numbers, x and y rationals, roots, NaN or Infinity.
Quot(x, y) ==
    IF IsNaN(x) \/ IsNaN(y) THEN NaN
    ELSE IF ~IsFinite(x) THEN (IF ~IsFinite(y) THEN NaN
                               ELSE Infinity(IF Sign(y) < 0 THEN -x.inf ELSE x.inf))
    ELSE IF ~IsFinite(y) THEN Zero
    ELSE IF y = Zero THEN (IF x = Zero THEN NaN ELSE Infinity(Sign(x)))
    ELSE IF x = Zero THEN Zero
    ELSE Norm([a |-> Zero, sgn |-> Sign(x) * Sign(y), s |-> RatDiv(Sq(x), Sq(y))])

\* x * y of two non-negative rationals or roots.
Times(x, y) == Sqrt(RatMul(Sq(x), Sq(y)))

\* x * c for a rational c
Scale(x, c) ==
    IF ~IsFinite(x) THEN x
    ELSE IF c = Zero THEN Zero
    ELSE LET g == Gen(x)
         IN Norm([a |-> RatMul(g.a, c),
                  sgn |-> IF c.n < 0 THEN -g.sgn ELSE g.sgn,
                  s |-> RatMul(g.s, RatMul(c, c))])

\* t - x for a rational t
MinusFrom(t, x) ==
    IF IsNaN(x) THEN NaN
    ELSE IF ~IsFinite(x) THEN Infinity(-x.inf)
    ELSE LET g == Gen(x)
         IN Norm([a |-> RatSub(t, g.a), sgn |-> -g.sgn, s |-> g.s])

\* x > t and x < t for a rational t; every comparison with NaN is false.
Gt(x, t) ==
    IF IsNaN(x) THEN FALSE
    ELSE IF ~IsFinite(x) THEN x.inf = 1
    ELSE IF IsRat(x) THEN RatLess(t, x)
    ELSE LET g == Gen(x)
             u == RatSub(t, g.a)
         IN IF g.sgn = 1 THEN u.n < 0 \/ RatLess(RatMul(u, u), g.s)
            ELSE u.n < 0 /\ RatLess(g.s, RatMul(u, u))

Lt(x, t) ==
    IF IsNaN(x) THEN FALSE
    ELSE IF ~IsFinite(x) THEN x.inf = -1
    ELSE IF IsRat(x) THEN RatLess(x, t)
    ELSE LET g == Gen(x)
             u == RatSub(t, g.a)
         IN IF g.sgn = 1 THEN u.n > 0 /\ RatLess(g.s, RatMul(u, u))
            ELSE u.n > 0 \/ RatLess(RatMul(u, u), g.s)

Ge(x, t) == ~IsNaN(x) /\ ~Lt(x, t)
Le(x, t) == ~IsNaN(x) /\ ~Gt(x, t)

\* Math.max(0, x)
MaxZero(x) == IF IsNaN(x) THEN NaN ELSE IF Lt(x, Zero) THEN Zero ELSE x

\* Math.round(a / b * 100) for integers a >= 0, b > 0
RoundPercent(a, b) == (2 * 100 * a + b) \div (2 * b)

\* ------------------------------------------------------------------ state
VARIABLES
    running,     \* state.running
    startedAt,   \* state.startedAt
    events,      \* state.events: reference to the array of events
    metrics,     \* state.metrics
    profiles,    \* state.profiles
    keyStates,   \* state.keyStates: set of [code, downTime, key]
    digraphs,    \* state.digraphs: entries [key, ref] in insertion order
    heap,        \* the shared arrays and sample objects
    editor,      \* els.editor.value
    imeToggle,   \* els.imeToggle.checked
    storage,     \* localStorage item 'keystroke_profiles'
    analysis,    \* the assessment shown in the analysis section
    comparison,  \* the lines of the last comparison shown by compareProfiles
    now,         \* performance.now()
    keyCount,    \* key events handled so far (bounds the exploration)
    held         \* the physical keys (codes) that are down on the keyboard

stateVars ==
    <<running, startedAt, events, metrics, profiles, keyStates, digraphs,
      heap, editor, imeToggle, storage, analysis, comparison>>
vars == <<stateVars, now, keyCount, held>>

\* The object {} that state.metrics starts as (and clearAll restores).
EmptyObject == [isEmpty |-> TRUE]
\* JavaScript truthiness of obj.totalKeys.
HasTotalKeys(m) == m # EmptyObject /\ m.totalKeys # 0

\* { DD: [], UD: [], DU: [], UU: [] }
NewDigraphStats == [DD |-> <<>>, UD |-> <<>>, DU |-> <<>>, UU |-> <<>>]

\* ------------------------------------------------------------------- heap
DigraphRefs(dg) == { dg[i].ref : i \in 1..Len(dg) }
ProfileRefs(p) ==
    (IF "events" \in DOMAIN p THEN {p.events} ELSE {})
    \cup (IF "digraphs" \in DOMAIN p THEN DigraphRefs(p.digraphs) ELSE {})
ProfilesRefs(ps) == UNION { ProfileRefs(ps[i]) : i \in 1..Len(ps) }

\* The lowest reference not in `used`.
FreshRef(used) ==
    CHOOSE r \in 1..(Cardinality(used) + 1) :
        r \notin used /\ \A q \in 1..(r - 1) : q \in used

\* The heap restricted to what state.events, state.digraphs and the
\* profiles still reach.
Collect(h, ev, dg, ps) ==
    [r \in ({ev} \cup DigraphRefs(dg) \cup ProfilesRefs(ps)) |-> h[r]]

\* ---------------------------------------------------------- event search
\* Faulty variant: the event before, whatever its type.
findLastDownEventAnyType(evs, fromIndex) ==
    IF fromIndex >= 0 /\ fromIndex < Len(evs) THEN fromIndex ELSE -1

\* findLastDownEvent(fromIndex) over the array evs; indices are the
\* code's 0-based ones.  The result is the 0-based index, or -1 (null).
findLastDownEvent(evs, fromIndex) ==
    LET hits == { i \in 0..fromIndex : i < Len(evs) /\ evs[i + 1].type = "down" }
    IN IF hits = {} THEN -1
       ELSE CHOOSE i \in hits : \A j \in hits : j <= i

\* findNextDownEvent(fromIndex)
findNextDownEvent(evs, fromIndex) ==
    LET hits == { i \in (fromIndex + 1)..(Len(evs) - 1) : evs[i + 1].type = "down" }
    IN IF hits = {} THEN -1
       ELSE CHOOSE i \in hits : \A j \in hits : i <= j

\* state.digraphs.has(d)
DigraphHas(dg, d) == \E i \in 1..Len(dg) : dg[i].key = d
\* the reference state.digraphs.get(d) yields
DigraphGet(dg, d) == (CHOOSE i \in 1..Len(dg) : dg[i].key = d)

\* --------------------------------------------------------------- metrics
DownEvents(evs) == SelectSeq(evs, LAMBDA e : e.type = "down")
UpEvents(evs) == SelectSeq(evs, LAMBDA e : e.type = "up")

\* Faulty variant: the inner loop has no `break`, so a release yields a
\* sample for every later press.
RECURSIVE FlightTimesNoBreak(_, _)
FlightTimesNoBreak(evs, i) ==
    IF i >= Len(evs) - 1 THEN <<>>
    ELSE LET js == { j \in (i + 1)..(Len(evs) - 1) : evs[j + 1].type = "down" }
             rest == FlightTimesNoBreak(evs, i + 1)
         IN IF evs[i + 1].type = "up"
            THEN [k \in 1..Cardinality(js) |->
                    LET j == CHOOSE x \in js : Cardinality({ y \in js : y <= x }) = k
                    IN evs[j + 1].t - evs[i + 1].t] \o rest
            ELSE rest

\* calculateMetrics, lines 1002-1013, from index i (0-based) on: for each
\* release at an index below length - 1, the time to the first press
\* after it, if there is one.
RECURSIVE FlightTimesFrom(_, _)
FlightTimesFrom(evs, i) ==
    IF i >= Len(evs) - 1 THEN <<>>
    ELSE LET js == { j \in (i + 1)..(Len(evs) - 1) : evs[j + 1].type = "down" }
             rest == FlightTimesFrom(evs, i + 1)
         IN IF evs[i + 1].type = "up" /\ js # {}
            THEN LET j == CHOOSE x \in js : \A y \in js : x <= y
                 IN <<evs[j + 1].t - evs[i + 1].t>> \o rest
            ELSE rest

\* calculateMetrics, lines 1015-1019.
DDTimes(evs) ==
    LET downEvents == DownEvents(evs)
    IN [i \in 1..(Len(downEvents) - 1) |-> downEvents[i + 1].t - downEvents[i].t]

\* calculateMetrics(): the new value of state.metrics, given the old one.
calculateMetrics(evs, text, old) ==
    IF Len(evs) = 0 THEN old
    ELSE LET downEvents == DownEvents(evs)
             upEvents == UpEvents(evs)
             dwellTimes == [i \in 1..Len(upEvents) |-> upEvents[i].dwell]
             flightTimes == FlightTimesFrom(evs, 0)
             ddTimes == DDTimes(evs)
         IN [ totalKeys   |-> Len(downEvents),
              duration    |-> evs[Len(evs)].t,
              avgDwell    |-> average(ToRats(dwellTimes)),
              stdDwell    |-> standardDeviation(ToRats(dwellTimes)),
              avgFlight   |-> average(ToRats(flightTimes)),
              stdFlight   |-> standardDeviation(ToRats(flightTimes)),
              avgDD       |-> average(ToRats(ddTimes)),
              stdDD       |-> standardDeviation(ToRats(ddTimes)),
              wpm         |-> calculateWPM(text, evs[Len(evs)].t),
              dwellTimes  |-> dwellTimes,
              flightTimes |-> flightTimes,
              ddTimes     |-> ddTimes ]

\* ----------------------------------------------------------- assessment
\* analyzeKeystrokePattern: the benchmark table.
benchmarks ==
    [ wpm        |-> [beginner |-> 20, average |-> 35, expert |-> 60],
      dwellTime  |-> [fast |-> 80, average |-> 120, slow |-> 180],
      flightTime |-> [fast |-> 120, average |-> 180, slow |-> 250],
      stability  |-> [unstable |-> 50, stable |-> 70, veryStable |-> 85] ]

\* The largest k in lo..hi with k - 1/2 <= 10 * x.
RECURSIVE NearestTenth(_, _, _)
NearestTenth(x, lo, hi) ==
    IF lo = hi THEN lo
    ELSE LET mid == (lo + hi + 1) \div 2
         IN IF Lt(x, Rat(2 * mid - 1, 20)) THEN NearestTenth(x, lo, mid - 1)
            ELSE NearestTenth(x, mid, hi)

\* Number.prototype.toFixed(1): the text "NaN" or "Infinity", or the
\* decimal with one digit, given by its number of tenths (halves round
\* away from zero). Irrational values lie within -100..100.
toFixed1(x) ==
    IF IsNaN(x) THEN [text |-> "NaN"]
    ELSE IF ~IsFinite(x) THEN [text |-> "Infinity", sgn |-> x.inf]
    ELSE IF IsRat(x)
         THEN [tenths |-> IF x.n >= 0 THEN (20 * x.n + x.d) \div (2 * x.d)
                          ELSE -((20 * (-x.n) + x.d) \div (2 * x.d))]
    ELSE IF Lt(x, Zero)
         THEN [tenths |-> -NearestTenth(MinusFrom(Zero, x), 0, 1000)]
         ELSE [tenths |-> NearestTenth(x, 0, 1000)]

\* analyzeKeystrokePattern, line 746: the coefficient of variation of
\* the DD intervals, in percent.
cv(m) ==
    IF Gt(m.stdDD, Zero) THEN Scale(Quot(m.stdDD, m.avgDD), ToRat(100)) ELSE Zero

\* Faulty variant: no Math.max(0, ...).
stabilityUnclamped(m) == MinusFrom(ToRat(100), cv(m))

\* line 747
stability(m) == MaxZero(MinusFrom(ToRat(100), cv(m)))

\* lines 750-751
rhythmConsistency(m) ==
    IF Gt(m.stdFlight, Zero)
    THEN MaxZero(MinusFrom(ToRat(100), Scale(Quot(m.stdFlight, m.avgFlight), ToRat(100))))
    ELSE ToRat(100)

\* lines 766-768: mean and coefficient of variation of one digraph's DD
\* samples.
DigraphAvgTime(data) == average(ToRats(data.DD))
\* Faulty variant: the zero-mean guard of the global cv applied here too.
DigraphCvGuarded(data) ==
    IF Gt(standardDeviation(ToRats(data.DD)), Zero)
    THEN Scale(Quot(standardDeviation(ToRats(data.DD)), DigraphAvgTime(data)), ToRat(100))
    ELSE Zero
DigraphCv(data) ==
    Scale(Quot(standardDeviation(ToRats(data.DD)), DigraphAvgTime(data)), ToRat(100))

\* Faulty variant: a single DD sample is classified too.
digraphAnalysisFromOneSample(dg, h) ==
    LET Classified(test(_)) ==
            LET sel == SelectSeq(dg, LAMBDA en : Len(h[en.ref].DD) >= 1 /\ test(h[en.ref]))
            IN [i \in 1..Len(sel) |-> sel[i].key]
    IN [ fast       |-> Classified(LAMBDA data : Lt(DigraphAvgTime(data), ToRat(200))),
         slow       |-> Classified(LAMBDA data : Gt(DigraphAvgTime(data), ToRat(400))),
         consistent |-> Classified(LAMBDA data : Lt(DigraphCv(data), ToRat(20))),
         variable   |-> Classified(LAMBDA data : Gt(DigraphCv(data), ToRat(40))) ]

\* lines 754, 759-776: the four classification lists, in the order of the
\* digraph map.
digraphAnalysis(dg, h) ==
    LET Classified(test(_)) ==
            LET sel == SelectSeq(dg, LAMBDA en : Len(h[en.ref].DD) >= 2 /\ test(h[en.ref]))
            IN [i \in 1..Len(sel) |-> sel[i].key]
    IN [ fast       |-> Classified(LAMBDA data : Lt(DigraphAvgTime(data), ToRat(200))),
         slow       |-> Classified(LAMBDA data : Gt(DigraphAvgTime(data), ToRat(400))),
         consistent |-> Classified(LAMBDA data : Lt(DigraphCv(data), ToRat(20))),
         variable   |-> Classified(LAMBDA data : Gt(DigraphCv(data), ToRat(40))) ]

\* lines 755-763 and 824: the first digraph with the most DD samples and
\* that count (no digraph: the placeholder and 0).
Placeholder == <<"-">>
topDigraph(dg, h) ==
    LET best == { i \in 1..Len(dg) :
                    /\ Len(h[dg[i].ref].DD) > 0
                    /\ \A j \in 1..Len(dg) :
                          \/ Len(h[dg[j].ref].DD) < Len(h[dg[i].ref].DD)
                          \/ (Len(h[dg[j].ref].DD) = Len(h[dg[i].ref].DD) /\ i <= j) }
    IN IF best = {} THEN [digraph |-> Placeholder, maxCount |-> 0]
       ELSE LET i == CHOOSE b \in best : TRUE
            IN [digraph |-> dg[i].key, maxCount |-> Len(h[dg[i].ref].DD)]

\* Faulty variant: the base label taken from the mean flight time.
typingStyleFromFlight(m) ==
    [ dwell  |-> IF Lt(m.avgFlight, ToRat(benchmarks.flightTime.fast)) THEN "light"
                 ELSE IF Gt(m.avgFlight, ToRat(benchmarks.flightTime.slow)) THEN "heavy"
                 ELSE "balanced",
      suffix |-> IF Gt(cv(m), ToRat(30)) THEN "unstable"
                 ELSE IF Lt(cv(m), ToRat(15)) THEN "highly stable"
                 ELSE "" ]

\* lines 779-809: the style from the mean dwell, with the stability
\* suffix from the global cv.
typingStyle(m) ==
    [ dwell  |-> IF Lt(m.avgDwell, ToRat(benchmarks.dwellTime.fast)) THEN "light"
                 ELSE IF Gt(m.avgDwell, ToRat(benchmarks.dwellTime.slow)) THEN "heavy"
                 ELSE "balanced",
      suffix |-> IF Gt(cv(m), ToRat(30)) THEN "unstable"
                 ELSE IF Lt(cv(m), ToRat(15)) THEN "highly stable"
                 ELSE "" ]

\* lines 811-814
uniqueness(m, dg) ==
    RoundPercent(Len(dg), IF m.totalKeys - 1 > 1 THEN m.totalKeys - 1 ELSE 1)

\* generateDetailedSummary, lines 629-642: the stability bucket.
\* Faulty variant: the upper end of the ideal range is excluded.
StabilityPointsExclusive(stab) ==
    IF Ge(stab, ToRat(70)) /\ Lt(stab, ToRat(85)) THEN 3
    ELSE IF Gt(stab, ToRat(85)) THEN 1
    ELSE IF Lt(stab, ToRat(50)) THEN 1
    ELSE 2
StabilityPoints(stab) ==
    IF Ge(stab, ToRat(70)) /\ Le(stab, ToRat(85)) THEN 3
    ELSE IF Gt(stab, ToRat(85)) THEN 1
    ELSE IF Lt(stab, ToRat(50)) THEN 1
    ELSE 2

\* lines 644-654: the uniqueness bucket.
\* Faulty variant: a monotonous pattern adds nothing.
UniquenessPointsNoFloor(uniq) ==
    IF uniq >= 60 THEN 3 ELSE IF uniq >= 40 THEN 2 ELSE 0
UniquenessPoints(uniq) ==
    IF uniq >= 60 THEN 3 ELSE IF uniq >= 40 THEN 2 ELSE 1

\* lines 656-667: the timing bucket.
DwellUniqueness(m) ==
    Quot(RatAbs(RatSub(m.avgDwell, ToRat(benchmarks.dwellTime.average))),
         ToRat(benchmarks.dwellTime.average))
FlightUniqueness(m) ==
    Quot(RatAbs(RatSub(m.avgFlight, ToRat(benchmarks.flightTime.average))),
         ToRat(benchmarks.flightTime.average))
TimingPoints(m) ==
    IF Gt(DwellUniqueness(m), Rat(3, 10)) \/ Gt(FlightUniqueness(m), Rat(3, 10)) THEN 2
    ELSE IF Gt(DwellUniqueness(m), Rat(15, 100)) \/ Gt(FlightUniqueness(m), Rat(15, 100))
         THEN 1
    ELSE 0

\* lines 705-719: the list of recommended measures, named by its tier.
Measures(score) ==
    IF score >= 7 THEN "high" ELSE IF score >= 5 THEN "medium" ELSE "low"

\* lines 671-692: the tier of a score.
\* Faulty variant: 7 points are not enough for the high tier.
TierAbove7(score) ==
    IF score > 7 THEN "high" ELSE IF score >= 5 THEN "medium" ELSE "low"
Tier(score) ==
    IF score >= 7 THEN "high" ELSE IF score >= 5 THEN "medium" ELSE "low"

\* generateDetailedSummary: the decisions its text reports.
generateDetailedSummary(m, stab, uniq) ==
    LET identifiabilityScore == StabilityPoints(stab) + UniquenessPoints(uniq) + TimingPoints(m)
    IN [ identifiabilityScore |-> identifiabilityScore,
         spoofingResistance   |-> Tier(identifiabilityScore),
         measures             |-> Measures(identifiabilityScore) ]

\* analyzeKeystrokePattern(), on state.metrics and state.digraphs.
analyzeKeystrokePattern(m, dg, h) ==
    [ wpm               |-> m.wpm,
      stability         |-> toFixed1(stability(m)),
      avgDwell          |-> toFixed1(m.avgDwell),
      avgFlight         |-> toFixed1(m.avgFlight),
      rhythmConsistency |-> toFixed1(rhythmConsistency(m)),
      topDigraph        |-> topDigraph(dg, h),
      typingStyle       |-> typingStyle(m),
      uniqueness        |-> uniqueness(m, dg),
      digraphAnalysis   |-> digraphAnalysis(dg, h),
      summary           |-> generateDetailedSummary(m, stability(m), uniqueness(m, dg)) ]

\* The analysis section while it is hidden.
Hidden == [shown |-> FALSE]

\* performAnalysis(): the content of the analysis section afterwards.
performAnalysis(m, dg, h, old) ==
    IF ~HasTotalKeys(m) THEN old
    ELSE [shown |-> TRUE, result |-> analyzeKeystrokePattern(m, dg, h)]

\* -------------------------------------------------------------- handlers
Init ==
    /\ running = FALSE
    /\ startedAt = 0
    /\ events = 1
    /\ heap = (1 :> <<>>)
    /\ metrics = EmptyObject
    /\ profiles = <<>>
    /\ keyStates = {}
    /\ digraphs = <<>>
    /\ editor = <<>>
    /\ imeToggle = FALSE
    /\ storage = <<>>
    /\ analysis = Hidden
    /\ comparison = <<>>
    /\ now = 0
    /\ keyCount = 0
    /\ held = {}

\* performance.now() advances, up to max.
Tick(max) ==
    /\ now < max
    /\ now' = now + 1
    /\ UNCHANGED <<stateVars, keyCount, held>>

\* Faulty variant: state.keyStates is not cleared.
startCaptureResetKeepsKeys ==
    LET r == FreshRef(ProfilesRefs(profiles))
    IN /\ running' = TRUE
       /\ startedAt' = now
       /\ events' = r
       /\ digraphs' = <<>>
       /\ heap' = Collect((r :> <<>>) @@ heap, r, <<>>, profiles)
       /\ editor' = <<>>
       /\ UNCHANGED <<analysis, comparison, keyStates, metrics, profiles, imeToggle, storage>>

\* startCapture(), lines 474-480: the reset of the session.
startCaptureReset ==
    LET r == FreshRef(ProfilesRefs(profiles))
    IN /\ running' = TRUE
       /\ startedAt' = now
       /\ events' = r
       /\ keyStates' = {}
       /\ digraphs' = <<>>
       /\ heap' = Collect((r :> <<>>) @@ heap, r, <<>>, profiles)
       /\ editor' = <<>>
       /\ UNCHANGED <<analysis, comparison, metrics, profiles, imeToggle, storage>>

\* Faulty variant: no `if (state.running) return`.
startCaptureAlways ==
    /\ UNCHANGED now
    /\ startCaptureReset

startCapture ==
    /\ UNCHANGED now
    /\ IF running THEN UNCHANGED stateVars ELSE startCaptureReset

stopCapture ==
    /\ UNCHANGED now
    /\ IF ~running THEN UNCHANGED stateVars
       ELSE /\ running' = FALSE
            /\ metrics' = calculateMetrics(heap[events], editor, metrics)
            /\ analysis' = performAnalysis(metrics', digraphs, heap, analysis)
            /\ UNCHANGED <<comparison, startedAt, events, profiles, keyStates, digraphs,
                           heap, editor, imeToggle, storage>>

\* Faulty variant: state.digraphs is not cleared.
clearAllKeepsDigraphs ==
    /\ UNCHANGED now
    /\ LET r == FreshRef(ProfilesRefs(profiles) \cup DigraphRefs(digraphs))
       IN /\ running' = FALSE
          /\ events' = r
          /\ metrics' = EmptyObject
          /\ analysis' = Hidden
          /\ keyStates' = {}
          /\ heap' = Collect((r :> <<>>) @@ heap, r, digraphs, profiles)
          /\ editor' = <<>>
          /\ UNCHANGED <<comparison, startedAt, profiles, imeToggle, storage, digraphs>>

clearAll ==
    /\ UNCHANGED now
    /\ LET r == FreshRef(ProfilesRefs(profiles))
       IN /\ running' = FALSE
          /\ events' = r
          /\ metrics' = EmptyObject
          /\ analysis' = Hidden
          /\ keyStates' = {}
          /\ digraphs' = <<>>
          /\ heap' = Collect((r :> <<>>) @@ heap, r, <<>>, profiles)
          /\ editor' = <<>>
          /\ UNCHANGED <<comparison, startedAt, profiles, imeToggle, storage>>

\* state.keyStates.has(code)
KeyStatesHas(ks, code) == \E k \in ks : k.code = code

\* Faulty variant: the latest press, whatever its code.
KeyStatesGetAny(ks, code) ==
    IF ks = {} THEN {} ELSE {CHOOSE k \in ks : \A o \in ks : o.downTime <= k.downTime}

\* state.keyStates.get(code): the entry, as a set of at most one element.
KeyStatesGet(ks, code) == { k \in ks : k.code = code }

\* Faulty variant: the entry stays in the table.
KeyStatesDeleteNothing(ks, code) == ks

\* state.keyStates.delete(code), line 960.
KeyStatesDelete(ks, code) == { k \in ks : k.code # code }

\* Faulty variant: the new sample is put in front.
PushSampleFront(samples, x) == <<x>> \o samples

\* Array.prototype.push on a sample list (lines 936 and 970).
PushSample(samples, x) == Append(samples, x)

\* Faulty variant: no key-repeat check.
KeyDownSkippedNoRepeatCheck(e) ==
    \/ ~running
    \/ (imeToggle /\ e.isComposing)

\* Faulty variant: no check that capture is running.
KeyDownSkippedNoRunningCheck(e) ==
    \/ (imeToggle /\ e.isComposing)
    \/ KeyStatesHas(keyStates, e.code)

\* handleKeyDown, lines 902-908: the early returns.
KeyDownSkipped(e) ==
    \/ ~running
    \/ (imeToggle /\ e.isComposing)
    \/ KeyStatesHas(keyStates, e.code)

\* handleKeyDown(e), e = [code, key, isComposing].
handleKeyDown(e) ==
    /\ UNCHANGED now
    /\ IF KeyDownSkipped(e)
       THEN UNCHANGED stateVars
       ELSE LET sanitizedCode == IF e.code # <<>> THEN Slice(e.code, CodeSlice) ELSE Unknown
                sanitizedKey == IF e.key # <<>> THEN Slice(e.key, KeySlice) ELSE Unknown
                t == now - startedAt
                event == [type |-> "down", code |-> sanitizedCode,
                          key |-> sanitizedKey, t |-> t]
                push == Len(heap[events]) < EventLimit
                evs == IF push THEN Append(heap[events], event) ELSE heap[events]
                prevIdx == IF Len(evs) >= 2 THEN findLastDownEvent(evs, Len(evs) - 2) ELSE -1
                prevDown == evs[prevIdx + 1]
                digraph == prevDown.key \o e.key
                isNew == ~DigraphHas(digraphs, digraph)
                ref == IF isNew THEN FreshRef(DOMAIN heap)
                       ELSE digraphs[DigraphGet(digraphs, digraph)].ref
                stats == IF isNew THEN NewDigraphStats ELSE heap[ref]
                heap1 == [heap EXCEPT ![events] = evs]
            IN /\ keyStates' = IF push
                               THEN { k \in keyStates : k.code # sanitizedCode }
                                    \cup {[code |-> sanitizedCode, downTime |-> t,
                                            key |-> sanitizedKey]}
                               ELSE keyStates
               /\ IF prevIdx # -1
                  THEN /\ digraphs' = IF isNew
                                      THEN Append(digraphs, [key |-> digraph, ref |-> ref])
                                      ELSE digraphs
                       /\ heap' = (ref :> [stats EXCEPT !.DD = PushSample(@, t - prevDown.t)])
                                  @@ heap1
                  ELSE /\ digraphs' = digraphs
                       /\ heap' = heap1
               /\ UNCHANGED <<analysis, comparison, running, startedAt, events, metrics, profiles,
                              editor, imeToggle, storage>>

\* handleKeyUp(e), e = [code, key, isComposing].
handleKeyUp(e) ==
    /\ UNCHANGED now
    /\ IF \/ ~running
          \/ (imeToggle /\ e.isComposing)
          \/ KeyStatesGet(keyStates, e.code) = {}
       THEN UNCHANGED stateVars
       ELSE LET keyState == CHOOSE k \in KeyStatesGet(keyStates, e.code) : TRUE
                t == now - startedAt
                event == [type |-> "up", code |-> e.code, key |-> e.key, t |-> t,
                          dwell |-> t - keyState.downTime]
                evs == Append(heap[events], event)
                nextDownIdx == findNextDownEvent(evs, Len(evs) - 1)
                nextDown == evs[nextDownIdx + 1]
                digraph == e.key \o nextDown.key
                isNew == ~DigraphHas(digraphs, digraph)
                ref == IF isNew THEN FreshRef(DOMAIN heap)
                       ELSE digraphs[DigraphGet(digraphs, digraph)].ref
                stats == IF isNew THEN NewDigraphStats ELSE heap[ref]
                heap1 == [heap EXCEPT ![events] = evs]
            IN /\ keyStates' = KeyStatesDelete(keyStates, e.code)
               /\ IF nextDownIdx # -1
                  THEN /\ digraphs' = IF isNew
                                      THEN Append(digraphs, [key |-> digraph, ref |-> ref])
                                      ELSE digraphs
                       /\ heap' = (ref :> [stats EXCEPT !.UD = PushSample(@, nextDown.t - t)])
                                  @@ heap1
                  ELSE /\ digraphs' = digraphs
                       /\ heap' = heap1
               /\ UNCHANGED <<analysis, comparison, running, startedAt, events, metrics, profiles,
                              editor, imeToggle, storage>>

\* The user edits the text of the enabled editor (updateUI line 1060).
editorInput(text) ==
    /\ running
    /\ editor' = text
    /\ UNCHANGED <<analysis, comparison, running, startedAt, events, metrics, profiles, keyStates,
                   digraphs, heap, imeToggle, storage, now>>

\* The user flips the IME checkbox (enabled while idle, updateUI line 1062).
toggleIme ==
    /\ ~running
    /\ imeToggle' = ~imeToggle
    /\ UNCHANGED <<analysis, comparison, running, startedAt, events, metrics, profiles, keyStates,
                   digraphs, heap, editor, storage, now>>

\* Date.now(): the epoch clock runs with performance.now().
DateNow == now + 1

\* JSON.stringify writes a number that is not finite as null.
Null == [null |-> TRUE]
JsonNumber(x) == IF IsFinite(x) THEN x ELSE Null
MetricNumbers == {"avgDwell", "stdDwell", "avgFlight", "stdFlight", "avgDD", "stdDD"}
StringifyMetrics(m) ==
    [f \in DOMAIN m |-> IF f \in MetricNumbers THEN JsonNumber(m[f]) ELSE m[f]]

\* JSON.stringify of one profile: references are written out as the
\* arrays and objects they point to.
StringifyProfile(p, h) ==
    [f \in DOMAIN p |->
        IF f = "events" THEN h[p.events]
        ELSE IF f = "digraphs"
             THEN [i \in 1..Len(p.digraphs) |-> <<p.digraphs[i].key, h[p.digraphs[i].ref]>>]
        ELSE IF f = "metrics" THEN StringifyMetrics(p.metrics)
        ELSE p[f]]

\* saveProfiles(): localStorage.setItem(..., JSON.stringify(state.profiles))
saveProfiles(ps, h) == [i \in 1..Len(ps) |-> StringifyProfile(ps[i], h)]

\* saveProfile(), with the answer given to its prompt.
saveProfile(answer) ==
    /\ UNCHANGED now
    /\ LET rawName == answer.text
           name == StripNameChars(Slice(Trim(rawName), NameSlice))
       IN IF \/ ~HasTotalKeys(metrics)
             \/ answer.cancelled \/ rawName = <<>>
             \/ Len(name) = 0
          THEN UNCHANGED stateVars
          ELSE LET profile == [ name      |-> name,
                                timestamp |-> DateNow,
                                metrics   |-> metrics,
                                events    |-> events,
                                digraphs  |-> digraphs,
                                text      |-> editor ]
               IN /\ profiles' = Append(profiles, profile)
                  /\ storage' = saveProfiles(profiles', heap)
                  /\ UNCHANGED <<analysis, comparison, running, startedAt, events, metrics, keyStates,
                                 digraphs, heap, editor, imeToggle>>

\* Parsed contents of the files offered to the import.
ImportedMetrics ==
    calculateMetrics(<<[type |-> "down", code |-> <<"K","1">>, key |-> <<"a">>, t |-> 0]>>,
                     <<>>, EmptyObject)
WellFormedRecord == [name |-> <<"q">>, timestamp |-> 1, metrics |-> ImportedMetrics]
NoTimestampRecord == [name |-> <<"r">>, metrics |-> ImportedMetrics]
ImportFiles ==
    { [isArray |-> TRUE,  items |-> <<WellFormedRecord>>],
      [isArray |-> TRUE,  items |-> <<NoTimestampRecord>>],
      [isArray |-> TRUE,  items |-> <<WellFormedRecord, NoTimestampRecord>>],
      [isArray |-> FALSE, items |-> <<>>] }

\* reader.onload of handleFileImport, for a file whose text parses to
\* `imported`.
handleFileImport(imported) ==
    /\ UNCHANGED now
    /\ IF imported.isArray
       THEN /\ profiles' = profiles \o imported.items
            /\ storage' = saveProfiles(profiles', heap)
            /\ UNCHANGED <<analysis, comparison, running, startedAt, events, metrics, keyStates,
                           digraphs, heap, editor, imeToggle>>
       ELSE UNCHANGED stateVars

\* calculateSimilarity(m1, m2): the cosine of the feature vectors.
Features(m) == <<m.avgDwell, m.avgFlight, m.avgDD>>
DotProduct(f1, f2) == SumRat([i \in 1..Len(f1) |-> RatMul(f1[i], f2[i])])
Magnitude(f) == Sqrt(DotProduct(f, f))
\* Faulty variant: the second vector is normalised only.
calculateSimilarityOneSided(m1, m2) ==
    Quot(DotProduct(Features(m1), Features(m2)), Magnitude(Features(m2)))
calculateSimilarity(m1, m2) ==
    Quot(DotProduct(Features(m1), Features(m2)),
         Times(Magnitude(Features(m1)), Magnitude(Features(m2))))

\* Faulty variant: each profile with the next one only.
RECURSIVE PairsAdjacent(_, _, _)
PairsAdjacent(i, j, n) ==
    IF i >= n THEN <<>> ELSE <<<<i, i + 1>>>> \o PairsAdjacent(i + 1, i + 2, n)

\* The index pairs (i, j), i < j <= n, in the order of the two loops of
\* compareProfiles.
RECURSIVE PairsFrom(_, _, _)
PairsFrom(i, j, n) ==
    IF i >= n THEN <<>>
    ELSE IF j > n THEN PairsFrom(i + 1, i + 2, n)
    ELSE <<<<i, j>>>> \o PairsFrom(i, j + 1, n)

\* compareProfiles(): the lines of the alert, one per pair.
compareProfiles ==
    /\ UNCHANGED <<now, keyCount, held>>
    /\ IF Len(profiles) < 2 THEN UNCHANGED stateVars
       ELSE LET pairs == PairsFrom(1, 2, Len(profiles))
            IN /\ comparison' =
                     [k \in 1..Len(pairs) |->
                        LET p1 == profiles[pairs[k][1]]
                            p2 == profiles[pairs[k][2]]
                            similarity == calculateSimilarity(p1.metrics, p2.metrics)
                        IN [ first  |-> p1.name,
                             second |-> p2.name,
                             similar |-> toFixed1(Scale(similarity, ToRat(100))) ]]
               /\ UNCHANGED <<running, startedAt, events, metrics, profiles, keyStates,
                              digraphs, heap, editor, imeToggle, storage, analysis>>

KeyEvents ==
    { [code |-> k.code, key |-> k.key, isComposing |-> c] :
        k \in KeyInputs, c \in BOOLEAN }

\* Key events outside IME composition.
PlainKeyEvents == { e \in KeyEvents : ~e.isComposing }

\* A key event is counted when its handler changed the state; `max` such
\* events are explored.
Counted(handler, max) ==
    /\ keyCount < max
    /\ handler
    /\ keyCount' = IF stateVars' = stateVars THEN keyCount ELSE keyCount + 1
    /\ UNCHANGED held

\* The capture pipeline: sessions of key events with the IME filter on or
\* off, no profile store.
NextCapture ==
    \/ Tick(MaxTime)
    \/ startCapture /\ UNCHANGED <<keyCount, held>>
    \/ stopCapture /\ UNCHANGED <<keyCount, held>>
    \/ clearAll /\ UNCHANGED <<keyCount, held>>
    \/ \E e \in KeyEvents : Counted(handleKeyDown(e), MaxKeyEvents)
    \/ \E e \in KeyEvents : Counted(handleKeyUp(e), MaxKeyEvents)
    \/ toggleIme /\ UNCHANGED <<keyCount, held>>

SpecCapture == Init /\ [][NextCapture]_vars

\* Capture with the profile store: shorter sessions, IME filter off.
Next ==
    \/ Tick(MaxStoreTime)
    \/ startCapture /\ UNCHANGED <<keyCount, held>>
    \/ stopCapture /\ UNCHANGED <<keyCount, held>>
    \/ clearAll /\ UNCHANGED <<keyCount, held>>
    \/ \E e \in PlainKeyEvents : Counted(handleKeyDown(e), MaxStoreKeyEvents)
    \/ \E e \in PlainKeyEvents : Counted(handleKeyUp(e), MaxStoreKeyEvents)
    \/ \E text \in EditorTexts : editorInput(text) /\ UNCHANGED <<keyCount, held>>
    \/ \E a \in PromptAnswers :
          Len(profiles) < MaxProfiles /\ saveProfile(a) /\ UNCHANGED <<keyCount, held>>
    \/ \E f \in ImportFiles :
          /\ Len(profiles) + Len(f.items) <= MaxProfiles
          /\ handleFileImport(f) /\ UNCHANGED <<keyCount, held>>

Spec == Init /\ [][Next]_vars

\* The digraph map next to the profile store: sessions of up to
\* MaxDigraphKeyEvents key events, one answer to the prompt, one file to
\* import, and the comparison.
NextDigraphs ==
    \/ Tick(MaxStoreTime)
    \/ startCapture /\ UNCHANGED <<keyCount, held>>
    \/ stopCapture /\ UNCHANGED <<keyCount, held>>
    \/ clearAll /\ UNCHANGED <<keyCount, held>>
    \/ \E e \in PlainKeyEvents : Counted(handleKeyDown(e), MaxDigraphKeyEvents)
    \/ \E e \in PlainKeyEvents : Counted(handleKeyUp(e), MaxDigraphKeyEvents)
    \/ /\ Len(profiles) < MaxProfiles
       /\ saveProfile([cancelled |-> FALSE, text |-> <<"p">>]) /\ UNCHANGED <<keyCount, held>>
    \/ /\ Len(profiles) < MaxProfiles
       /\ handleFileImport([isArray |-> TRUE, items |-> <<WellFormedRecord>>])
       /\ UNCHANGED <<keyCount, held>>
    \/ compareProfiles

SpecDigraphs == Init /\ [][NextDigraphs]_vars

\* Saving to a store that grows one past the limit of loadProfiles:
\* sessions of up to MaxSavedKeyEvents key events, saved under one name.
NextStore ==
    \/ Tick(MaxStoreTime)
    \/ startCapture /\ UNCHANGED <<keyCount, held>>
    \/ stopCapture /\ UNCHANGED <<keyCount, held>>
    \/ \E e \in PlainKeyEvents : Counted(handleKeyDown(e), MaxSavedKeyEvents)
    \/ \E e \in PlainKeyEvents : Counted(handleKeyUp(e), MaxSavedKeyEvents)
    \/ /\ Len(profiles) <= ProfileLimit
       /\ saveProfile([cancelled |-> FALSE, text |-> <<"p">>]) /\ UNCHANGED <<keyCount, held>>

SpecStore == Init /\ [][NextStore]_vars

\* The keyboard: a key that is up goes down, a key that is down repeats
\* or goes up, and each time the page receives the key event, inside or
\* outside IME composition.  Up to MaxTypedKeyEvents events are explored.
PressKey(e) ==
    /\ e.code \notin held
    /\ keyCount < MaxTypedKeyEvents
    /\ handleKeyDown(e)
    /\ held' = held \cup {e.code}
    /\ keyCount' = keyCount + 1

RepeatKey(e) ==
    /\ e.code \in held
    /\ keyCount < MaxTypedKeyEvents
    /\ handleKeyDown(e)
    /\ UNCHANGED held
    /\ keyCount' = keyCount + 1

ReleaseKey(e) ==
    /\ e.code \in held
    /\ keyCount < MaxTypedKeyEvents
    /\ handleKeyUp(e)
    /\ held' = held \ {e.code}
    /\ keyCount' = keyCount + 1

NextKeyboard ==
    \/ Tick(MaxStoreTime)
    \/ startCapture /\ UNCHANGED <<keyCount, held>>
    \/ stopCapture /\ UNCHANGED <<keyCount, held>>
    \/ clearAll /\ UNCHANGED <<keyCount, held>>
    \/ toggleIme /\ UNCHANGED <<keyCount, held>>
    \/ \E e \in KeyEvents : PressKey(e)
    \/ \E e \in KeyEvents : RepeatKey(e)
    \/ \E e \in KeyEvents : ReleaseKey(e)

SpecKeyboard == Init /\ [][NextKeyboard]_vars

\* -------------------------------------------------- sessions to assess
\* Sessions typed key after key on the digit row: every press but the
\* last is released after its dwell, and the next press follows after the
\* flight.  Capture is stopped while the last key is still held.  The
\* sessions stay far below the event limit of handleKeyDown.
AssessCode(key) == <<"D", key>>

RECURSIVE TypedEvents(_, _, _)
TypedEvents(keys, gaps, t) ==
    LET down == [type |-> "down", code |-> AssessCode(Head(keys)),
                 key |-> <<Head(keys)>>, t |-> t]
    IN IF gaps = <<>> THEN <<down>>
       ELSE LET g == Head(gaps)
                up == [type |-> "up", code |-> AssessCode(Head(keys)),
                       key |-> <<Head(keys)>>, t |-> t + g.dwell, dwell |-> g.dwell]
            IN <<down, up>>
               \o TypedEvents(Tail(keys), Tail(gaps), t + g.dwell + g.flight)

\* What handleKeyDown (lines 928-938) has accumulated over the presses of
\* evs: the digraphs in insertion order, each with its DD samples.
DigraphSamples(evs) ==
    LET downs == DownEvents(evs)
        n == Len(downs) - 1
        pairKey(i) == downs[i].key \o downs[i + 1].key
        firsts == { i \in 1..n : \A j \in 1..(i - 1) : pairKey(j) # pairKey(i) }
        Samples(d) ==
            LET idx == { i \in 1..n : pairKey(i) = d }
            IN [k \in 1..Cardinality(idx) |->
                  LET i == NthOf(idx, k) IN downs[i + 1].t - downs[i].t]
    IN [k \in 1..Cardinality(firsts) |->
          LET i == NthOf(firsts, k)
          IN [key |-> pairKey(i), DD |-> Samples(pairKey(i))]]

\* DD intervals of the sessions: pairs around the thresholds of the
\* coefficient of variation (15, 20, 30 and 40 percent, at mean 300) and
\* of the mean (200 and 400), and triples whose deviation exceeds their
\* mean.
DDInputs ==
    { <<0, 0>>, <<100, 100>>, <<199, 200>>, <<200, 200>>, <<400, 400>>, <<400, 401>>,
      <<500, 500>>,
      <<270, 330>>, <<255, 345>>, <<250, 350>>, <<240, 360>>, <<225, 375>>,
      <<210, 390>>, <<195, 405>>, <<180, 420>>, <<150, 450>>,
      <<100, 100, 400>>, <<0, 0, 300>>, <<300, 300, 300>> }
\* The dwell of each press, cut to the DD interval it lies in: around the
\* benchmarks 80 and 180.
DwellCaps == {0, 79, 80, 81, 180, 181}
\* The keys typed: one key throughout, or two keys in turn.
KeyPatterns == {<<"1", "1", "1", "1">>, <<"1", "2", "1", "2">>}
AssessTexts == {<<>>, <<"w">>}

AssessGaps(dds, cap) ==
    [i \in 1..Len(dds) |-> [dwell |-> Min(cap, dds[i]), flight |-> dds[i] - Min(cap, dds[i])]]

\* Capture runs and one of the sessions has been typed.
InitAssess ==
    /\ \E dds \in DDInputs, cap \in DwellCaps, pattern \in KeyPatterns, text \in AssessTexts :
          LET evs == TypedEvents(pattern, AssessGaps(dds, cap), 0)
              dgs == DigraphSamples(evs)
              last == evs[Len(evs)]
          IN /\ heap = (1 :> evs)
                       @@ [r \in 2..(Len(dgs) + 1) |->
                             [NewDigraphStats EXCEPT !.DD = dgs[r - 1].DD]]
             /\ digraphs = [k \in 1..Len(dgs) |-> [key |-> dgs[k].key, ref |-> k + 1]]
             /\ keyStates = {[code |-> last.code, downTime |-> last.t, key |-> last.key]}
             /\ now = last.t
             /\ editor = text
    /\ running = TRUE
    /\ startedAt = 0
    /\ events = 1
    /\ metrics = EmptyObject
    /\ profiles = <<>>
    /\ imeToggle = FALSE
    /\ storage = <<>>
    /\ analysis = Hidden
    /\ comparison = <<>>
    /\ keyCount = 0
    /\ held = {}

NextAssess == stopCapture /\ UNCHANGED <<keyCount, held>>

SpecAssess == InitAssess /\ [][NextAssess]_vars

\* ------------------------------------------------ stored profile stores
\* A session of one key: pressed at 0, released after `dwell`, pressed
\* again after `flight`.
SessionEvents(dwell, flight) ==
    << [type |-> "down", code |-> <<"K","1">>, key |-> <<"a">>, t |-> 0],
       [type |-> "up", code |-> <<"K","1">>, key |-> <<"a">>, t |-> dwell, dwell |-> dwell],
       [type |-> "down", code |-> <<"K","1">>, key |-> <<"a">>, t |-> dwell + flight] >>
\* A session of a single press that is never released.
SinglePress == <<[type |-> "down", code |-> <<"K","1">>, key |-> <<"a">>, t |-> 0]>>

\* Sessions behind the profiles found in localStorage: those with dwell
\* and flight up to MaxStoredTime, and a single press.
StoredSessions ==
    { SessionEvents(d, f) : d \in 0..MaxStoredTime, f \in 0..MaxStoredTime }
    \cup { SinglePress }
StoredMetrics == { calculateMetrics(evs, <<>>, EmptyObject) : evs \in StoredSessions }
\* Larger stores are made of these sessions.
FewSessions == { SinglePress, SessionEvents(1, 1), SessionEvents(MaxStoredTime, 0) }

\* The record saveProfile and saveProfiles wrote for a session stopped
\* with an empty editor, as JSON.parse reads it.
StoredNames == <<"p", "q", "r", "s", "t", "u">>
StoredRecord(i, evs) ==
    LET dgs == DigraphSamples(evs)
    IN [ name      |-> <<StoredNames[i]>>,
         timestamp |-> i,
         metrics   |-> StringifyMetrics(calculateMetrics(evs, <<>>, EmptyObject)),
         events    |-> evs,
         digraphs  |-> [k \in 1..Len(dgs) |->
                          <<dgs[k].key, [NewDigraphStats EXCEPT !.DD = dgs[k].DD]>>],
         text      |-> <<>> ]

\* loadProfiles(): the stored records that pass the filter, at most
\* ProfileLimit of them.
loadProfiles(saved) ==
    Slice(SelectSeq(saved, LAMBDA profile :
                               /\ {"name", "timestamp", "metrics"} \subseteq DOMAIN profile
                               /\ Len(profile.name) <= 100
                               /\ profile.timestamp # 0),
          ProfileLimit)

\* The stores found in localStorage: up to 2 records of any stored
\* session, or up to one more than ProfileLimit of the few.
StoredStores ==
    UNION { { [i \in 1..n |-> StoredRecord(i, ss[i])] : ss \in [1..n -> StoredSessions] } :
              n \in 0..2 }
    \cup UNION { { [i \in 1..n |-> StoredRecord(i, ss[i])] : ss \in [1..n -> FewSessions] } :
                   n \in 3..(ProfileLimit + 1) }

\* The page opens on a store of profiles saved earlier.
InitStored ==
    /\ storage \in StoredStores
    /\ profiles = loadProfiles(storage)
    /\ running = FALSE
    /\ startedAt = 0
    /\ events = 1
    /\ heap = (1 :> <<>>)
    /\ metrics = EmptyObject
    /\ keyStates = {}
    /\ digraphs = <<>>
    /\ editor = <<>>
    /\ imeToggle = FALSE
    /\ analysis = Hidden
    /\ comparison = <<>>
    /\ now = 0
    /\ keyCount = 0
    /\ held = {}

\* Comparing the profiles of a stored store.
SpecCompare == InitStored /\ [][compareProfiles]_vars

\* ------------------------------------------------- the summary's inputs
\* Mean dwell and flight around the thresholds of the timing bucket
\* (benchmark 120 and 180, ratios 0.15 and 0.3).
DwellInputs == {83, 84, 101, 102, 120, 138, 139, 156, 157}
FlightInputs == {125, 126, 152, 153, 180, 207, 208, 234, 235}
\* Stability around 50, 70 and 85; uniqueness around 40 and 60.
StabilityInputs ==
    { ToRat(0), ToRat(49), Rat(999, 20), ToRat(50), ToRat(69), Rat(1399, 20), ToRat(70),
      ToRat(77), ToRat(85), Rat(1701, 20), ToRat(86), ToRat(100) }
UniquenessInputs == {0, 39, 40, 50, 59, 60, 100}

\* The state after a stopped session of SessionEvents(d, f).
InitScore ==
    /\ \E d \in DwellInputs, f \in FlightInputs :
          /\ heap = (1 :> SessionEvents(d, f))
                    @@ (2 :> [NewDigraphStats EXCEPT !.DD = <<d + f>>])
          /\ metrics = calculateMetrics(SessionEvents(d, f), <<>>, EmptyObject)
    /\ digraphs = <<[key |-> <<"a", "a">>, ref |-> 2]>>
    /\ analysis = performAnalysis(metrics, digraphs, heap, Hidden)
    /\ running = FALSE
    /\ startedAt = 0
    /\ events = 1
    /\ profiles = <<>>
    /\ keyStates = {}
    /\ editor = <<>>
    /\ imeToggle = FALSE
    /\ storage = <<>>
    /\ comparison = <<>>
    /\ now = 0
    /\ keyCount = 0
    /\ held = {}

\* generateDetailedSummary applied to the session's metrics with a given
\* stability and uniqueness, in place of the session's own.
summarize(stab, uniq) ==
    /\ analysis' = [analysis EXCEPT !.result.stability = toFixed1(stab),
                                    !.result.uniqueness = uniq,
                                    !.result.summary =
                                        generateDetailedSummary(metrics, stab, uniq)]
    /\ UNCHANGED <<running, startedAt, events, metrics, profiles, keyStates, digraphs,
                   heap, editor, imeToggle, storage, comparison, now, keyCount, held>>

NextScore ==
    /\ analysis = performAnalysis(metrics, digraphs, heap, Hidden)
    /\ \E stab \in StabilityInputs, uniq \in UniquenessInputs : summarize(stab, uniq)

SpecScore == InitScore /\ [][NextScore]_vars

\* ================================================================ claims
\* The event list of the current session.
Evs == heap[events]
\* Idle with a non-empty event list: the session was stopped by
\* stopCapture and nothing has reset it since.
Stopped == ~running /\ Evs # <<>>

Range(q) == { q[i] : i \in 1..Len(q) }
Count(q, v) == Cardinality({ i \in 1..Len(q) : q[i] = v })

\* The DD list held by the digraph map dg under key d (empty when absent).
DDOf(dg, h, d) == IF DigraphHas(dg, d) THEN h[dg[DigraphGet(dg, d)].ref].DD ELSE <<>>
UDOf(dg, h, d) == IF DigraphHas(dg, d) THEN h[dg[DigraphGet(dg, d)].ref].UD ELSE <<>>
DigraphKeys(dg) == { dg[i].key : i \in 1..Len(dg) }

\* 1-based positions of the presses and releases of an event list.
DownIdx(evs) == { i \in 1..Len(evs) : evs[i].type = "down" }
UpIdx(evs) == { i \in 1..Len(evs) : evs[i].type = "up" }
\* The first press after position i, or 0.
NextDownAfter(evs, i) ==
    LET later == { j \in DownIdx(evs) : j > i }
    IN IF later = {} THEN 0 ELSE CHOOSE j \in later : \A k \in later : j <= k
\* The last press before position i, or 0.
PrevDownBefore(evs, i) ==
    LET earlier == { j \in DownIdx(evs) : j < i }
    IN IF earlier = {} THEN 0 ELSE CHOOSE j \in earlier : \A k \in earlier : k <= j

\* ---------------------------------------------------------------------
\* C1: stopping a session in which no key event was recorded leaves
\* metrics that describe an empty session (no presses, duration 0, wpm 0,
\* every mean and deviation 0), whatever happened before that session.
\* The object {} is accepted as describing an empty session too.
DescribesEmptySession(m) ==
    \/ m = EmptyObject
    \/ /\ m.totalKeys = 0 /\ m.duration = 0 /\ m.wpm = 0
       /\ m.avgDwell = Zero /\ m.stdDwell = Zero
       /\ m.avgFlight = Zero /\ m.stdFlight = Zero
       /\ m.avgDD = Zero /\ m.stdDD = Zero

C1_EmptySessionMetrics ==
    [][(running /\ Evs = <<>> /\ stopCapture) => DescribesEmptySession(metrics')]_vars

\* ---------------------------------------------------------------------
\* C2: once a session is stopped, every recorded release that has a later
\* press has its UD sample (next press time minus release time) in the
\* digraph keyed by the release's key followed by that press's key.
C2_UDSamplesRecorded ==
    Stopped =>
        \A i \in UpIdx(Evs) :
            LET j == NextDownAfter(Evs, i)
            IN j # 0 =>
                 \E n \in 1..Len(UDOf(digraphs, heap, Evs[i].key \o Evs[j].key)) :
                    UDOf(digraphs, heap, Evs[i].key \o Evs[j].key)[n] = Evs[j].t - Evs[i].t

\* ---------------------------------------------------------------------
\* C3: a profile in the store never changes: no step alters the metrics,
\* the events, the digraph samples or the text of a stored profile.
C3_ProfilesImmutable ==
    [][\A i \in 1..Len(profiles) :
          /\ i <= Len(profiles')
          /\ StringifyProfile(profiles'[i], heap') = StringifyProfile(profiles[i], heap)]_vars

\* ---------------------------------------------------------------------
\* C4: when a press is recorded after an earlier press of the session,
\* exactly its time minus the earlier press's time is appended to the DD
\* list of the digraph keyed by the earlier key followed by the new key,
\* and no other DD list changes; releases in between and a still-open
\* earlier press make no difference.
C4_DDAppendedPerPress ==
    [][ ( /\ running /\ running' /\ events' = events
          /\ Len(heap'[events]) = Len(Evs) + 1
          /\ SubSeq(heap'[events], 1, Len(Evs)) = Evs
          /\ heap'[events][Len(Evs) + 1].type = "down"
          /\ DownIdx(Evs) # {} )
        => LET e == heap'[events][Len(Evs) + 1]
               prev == Evs[PrevDownBefore(Evs, Len(Evs) + 1)]
               d == prev.key \o e.key
           IN /\ DDOf(digraphs', heap', d) = Append(DDOf(digraphs, heap, d), e.t - prev.t)
              /\ \A k \in (DigraphKeys(digraphs) \cup DigraphKeys(digraphs')) \ {d} :
                    DDOf(digraphs', heap', k) = DDOf(digraphs, heap, k) ]_vars

\* Three presses recorded, a release between two consecutive presses, the
\* first press still held, and a non-zero DD sample stored.
C4_Witness ==
    /\ running
    /\ Cardinality(DownIdx(Evs)) >= 3
    /\ \E u \in UpIdx(Evs) : PrevDownBefore(Evs, u) # 0 /\ NextDownAfter(Evs, u) # 0
    /\ KeyStatesHas(keyStates, Evs[1].code)
    /\ \A u \in UpIdx(Evs) : Evs[u].code # Evs[1].code
    /\ \E k \in DigraphKeys(digraphs) : \E n \in 1..Len(DDOf(digraphs, heap, k)) :
          DDOf(digraphs, heap, k)[n] > 0

\* ---------------------------------------------------------------------
\* C5: at stopCapture the DD samples stored across all digraphs are the
\* same multiset as metrics.ddTimes, so there are totalKeys - 1 of them
\* when a press was recorded, also for a session that reached the event
\* limit.
RECURSIVE Flatten(_)
Flatten(ss) == IF ss = <<>> THEN <<>> ELSE Head(ss) \o Flatten(Tail(ss))
AllDD == Flatten([i \in 1..Len(digraphs) |-> heap[digraphs[i].ref].DD])
SameBag(p, q) ==
    /\ Len(p) = Len(q)
    /\ \A v \in Range(p) \cup Range(q) : Count(p, v) = Count(q, v)

C5_DigraphDDMatchesMetrics ==
    Stopped =>
        /\ SameBag(AllDD, metrics.ddTimes)
        /\ Len(AllDD) = metrics.totalKeys - 1

\* ---------------------------------------------------------------------
\* C6 as stated: flight samples are produced per gap between consecutive
\* presses i and i+1, from the first release after press i, and only for
\* a press i that has a matching release.  Both readings of "first
\* release after press i" are accepted: the first release anywhere after
\* press i, or the first release between press i and press i+1.
HasMatchingRelease(evs, p) == \E u \in UpIdx(evs) : u > p /\ evs[u].code = evs[p].code
GapFlights(evs, intervening) ==
    LET downs == DownIdx(evs)
        gaps == { g \in 1..(Cardinality(downs) - 1) :
                    LET p == NthOf(downs, g)
                        q == NthOf(downs, g + 1)
                    IN /\ HasMatchingRelease(evs, p)
                       /\ \E u \in UpIdx(evs) : u > p /\ (intervening => u < q) }
    IN [k \in 1..Cardinality(gaps) |->
          LET g == NthOf(gaps, k)
              p == NthOf(downs, g)
              q == NthOf(downs, g + 1)
              rels == { u \in UpIdx(evs) : u > p /\ (intervening => u < q) }
          IN evs[q].t - evs[NthOf(rels, 1)].t]

C6_FlightPerGap ==
    Stopped =>
        /\ \/ SameBag(metrics.flightTimes, GapFlights(Evs, FALSE))
           \/ SameBag(metrics.flightTimes, GapFlights(Evs, TRUE))
        /\ Len(metrics.flightTimes) <= metrics.totalKeys - 1

\* C6 amended: calculateMetrics produces one flight sample per recorded
\* release that is followed by a later press, in release order: the time
\* of the first press after the release minus the time of the release; a
\* release with no later press produces none; hence a session never has
\* more flight samples than totalKeys - 1, also when keys overlap.
FlightPerRelease(evs) ==
    LET rels == { u \in UpIdx(evs) : NextDownAfter(evs, u) # 0 }
    IN [k \in 1..Cardinality(rels) |->
          LET u == NthOf(rels, k) IN evs[NextDownAfter(evs, u)].t - evs[u].t]

C6_FlightPerRelease ==
    Stopped =>
        /\ metrics.flightTimes = FlightPerRelease(Evs)
        /\ Len(metrics.flightTimes) <= metrics.totalKeys - 1

\* A stopped session in which a second key was pressed before the first
\* was released, with a non-zero flight sample.
C6_Witness ==
    /\ Stopped
    /\ \E p \in DownIdx(Evs), q \in DownIdx(Evs), u \in UpIdx(Evs) :
          p < q /\ q < u /\ Evs[u].code = Evs[p].code /\ NextDownAfter(Evs, u) # 0
    /\ \E n \in 1..Len(metrics.flightTimes) : metrics.flightTimes[n] > 0

\* ---------------------------------------------------------------------
\* C7: every recorded release carries the dwell of the open press of its
\* code: its time minus the time of the last press of that code, with no
\* other release of that code in between; once the session is stopped the
\* dwell samples of the metrics are exactly these, one per release in
\* release order, so a press that is never released yields none.
C7_DwellPerRelease ==
    /\ \A u \in UpIdx(Evs) :
          LET ps == { p \in DownIdx(Evs) : p < u /\ Evs[p].code = Evs[u].code }
          IN /\ ps # {}
             /\ LET p == CHOOSE x \in ps : \A y \in ps : y <= x
                IN /\ Evs[u].dwell = Evs[u].t - Evs[p].t
                   /\ \A v \in UpIdx(Evs) : ~(p < v /\ v < u /\ Evs[v].code = Evs[u].code)
    /\ Stopped =>
          /\ Len(metrics.dwellTimes) = Cardinality(UpIdx(Evs))
          /\ \A k \in 1..Len(metrics.dwellTimes) :
                metrics.dwellTimes[k] = Evs[NthOf(UpIdx(Evs), k)].dwell

\* A stopped session with overlapping holds (a key pressed while another
\* was held, both released later), a press never released, and two
\* different dwell samples.
C7_Witness ==
    /\ Stopped
    /\ \E p \in DownIdx(Evs), q \in DownIdx(Evs), u \in UpIdx(Evs), v \in UpIdx(Evs) :
          /\ p < q /\ q < u /\ u # v
          /\ Evs[u].code = Evs[p].code /\ Evs[v].code = Evs[q].code /\ q < v
          /\ Evs[u].dwell # Evs[v].dwell
    /\ Cardinality(DownIdx(Evs)) > Cardinality(UpIdx(Evs))
    /\ Len(metrics.dwellTimes) = 2

\* ---------------------------------------------------------------------
\* C8: a keydown for a code that is open (a press of it is recorded in
\* the session's events and no release of it is recorded after that
\* press) changes nothing: no event, no DD sample, the same down time.
OpenCodes(evs) ==
    { evs[p].code : p \in { q \in DownIdx(evs) :
                              \A u \in UpIdx(evs) : ~(u > q /\ evs[u].code = evs[q].code) } }

C8_RepeatIgnored ==
    [][\A e \in KeyEvents :
          (running /\ e.code \in OpenCodes(Evs) /\ handleKeyDown(e))
              => UNCHANGED stateVars]_vars

\* Capture runs, a key recorded as pressed at an earlier instant is still
\* open, and the event list is below its limit, so a press would
\* otherwise be recorded with a DD sample.
C8_Witness ==
    /\ running
    /\ Len(Evs) < EventLimit
    /\ keyCount < MaxKeyEvents
    /\ \E p \in DownIdx(Evs) : Evs[p].code \in OpenCodes(Evs) /\ Evs[p].t < now - startedAt

\* ---------------------------------------------------------------------
\* C9: startCapture while running and stopCapture while idle change
\* nothing.
C9_ToggleIdempotent ==
    [][ /\ (running /\ startCapture) => UNCHANGED stateVars
        /\ (~running /\ stopCapture) => UNCHANGED stateVars ]_vars

\* Capture runs since an earlier instant with events, an open key and a
\* digraph recorded: a reset would be visible.
C9_Witness ==
    /\ running
    /\ startedAt < now
    /\ Evs # <<>>
    /\ keyStates # {}
    /\ digraphs # <<>>

\* ---------------------------------------------------------------------
\* C10: every profile added by saveProfile is a snapshot of one session:
\* its metrics count the presses of its own event list.
C10_ProfileConsistent ==
    \A i \in 1..Len(profiles) :
        "events" \in DOMAIN profiles[i] =>
            profiles[i].metrics.totalKeys = Cardinality(DownIdx(heap[profiles[i].events]))

\* ---------------------------------------------------------------------
\* C11: an import adds exactly the well-formed records of the file (those
\* with name, timestamp and metrics) to the store, in order, and discards
\* the others.
IsWellFormed(r) == {"name", "timestamp", "metrics"} \subseteq DOMAIN r

C11_ImportValidates ==
    [][\A f \in ImportFiles :
          (f.isArray /\ handleFileImport(f))
              => profiles' = profiles \o SelectSeq(f.items, IsWellFormed)]_vars

\* ---------------------------------------------------------------------
\* C12: every similarity shown by compareProfiles is finite, and it is 0
\* when one of the two feature vectors has magnitude 0.
C12_SimilarityFallback ==
    \A k \in 1..Len(comparison) :
        LET pair == PairsFrom(1, 2, Len(profiles))[k]
            m1 == profiles[pair[1]].metrics
            m2 == profiles[pair[2]].metrics
        IN /\ IsFinite(calculateSimilarity(m1, m2))
           /\ "text" \notin DOMAIN comparison[k].similar
           /\ (Magnitude(Features(m1)) = Zero \/ Magnitude(Features(m2)) = Zero)
                 => /\ calculateSimilarity(m1, m2) = Zero
                    /\ comparison[k].similar = toFixed1(Zero)

\* ---------------------------------------------------------------------
\* C13: in the assessment of a stopped session every coefficient of
\* variation is finite and is 0 when its mean is 0: the global DD cv, the
\* one behind rhythm consistency (which is then 100), and the cv of each
\* digraph with at least 2 DD samples, which is then listed as consistent.
C13_ZeroMeanCV ==
    Stopped =>
        /\ analysis.shown
        /\ IsFinite(cv(metrics))
        /\ metrics.avgDD = Zero => cv(metrics) = Zero
        /\ IsFinite(rhythmConsistency(metrics))
        /\ metrics.avgFlight = Zero => rhythmConsistency(metrics) = ToRat(100)
        /\ \A i \in 1..Len(digraphs) :
              LET data == heap[digraphs[i].ref]
              IN Len(data.DD) >= 2 =>
                    /\ IsFinite(DigraphCv(data))
                    /\ DigraphAvgTime(data) = Zero =>
                          /\ DigraphCv(data) = Zero
                          /\ \E k \in 1..Len(analysis.result.digraphAnalysis.consistent) :
                                analysis.result.digraphAnalysis.consistent[k] = digraphs[i].key

\* ---------------------------------------------------------------------
\* C14: stopping a session in which no event was recorded produces an
\* assessment whose 8-point score is 2 and whose tier is "low".
C14_EmptySessionScore ==
    [][(running /\ Evs = <<>> /\ stopCapture) =>
          /\ analysis'.shown
          /\ analysis'.result.summary.identifiabilityScore = 2
          /\ analysis'.result.summary.spoofingResistance = "low"]_vars

\* ---------------------------------------------------------------------
\* C15: the 8-point score of every assessment is an integer in 0..8; the
\* tier is "high" exactly for scores of at least 7, "medium" exactly for 5
\* and 6, "low" exactly for at most 4; the measures list is that of the
\* same tier.
C15_ScoreRangeAndTier ==
    analysis.shown =>
        LET sm == analysis.result.summary
        IN /\ sm.identifiabilityScore \in 0..8
           /\ sm.spoofingResistance = "high" <=> sm.identifiabilityScore >= 7
           /\ sm.spoofingResistance = "medium" <=> sm.identifiabilityScore \in {5, 6}
           /\ sm.spoofingResistance = "low" <=> sm.identifiabilityScore <= 4
           /\ sm.measures = sm.spoofingResistance

\* An assessment on the boundary of the high tier.
C15_Witness ==
    /\ analysis.shown
    /\ analysis.result.summary.identifiabilityScore = 7
    /\ analysis.result.summary.spoofingResistance = "high"

\* ---------------------------------------------------------------------
\* C16: for every stability, uniqueness and mean dwell and flight the
\* score is the sum of the stability bucket (3 in [70, 85], 1 above 85 or
\* below 50, else 2), the uniqueness bucket (3 from 60, 2 from 40, else 1)
\* and the timing bucket (2 when a deviation ratio exceeds 0.3, 1 when one
\* exceeds 0.15, else 0; benchmarks 120 for dwell, 180 for flight).
StabilityBucket(stab) ==
    IF ~RatLess(stab, ToRat(70)) /\ ~RatLess(ToRat(85), stab) THEN 3
    ELSE IF RatLess(ToRat(85), stab) \/ RatLess(stab, ToRat(50)) THEN 1
    ELSE 2
UniquenessBucket(uniq) == IF uniq >= 60 THEN 3 ELSE IF uniq >= 40 /\ uniq < 60 THEN 2 ELSE 1
\* |mean - benchmark| / benchmark > num / 100
DeviationAbove(mean, benchmark, num) ==
    100 * Abs(mean.n - benchmark * mean.d) > num * benchmark * mean.d
TimingBucket(m) ==
    IF DeviationAbove(m.avgDwell, 120, 30) \/ DeviationAbove(m.avgFlight, 180, 30) THEN 2
    ELSE IF DeviationAbove(m.avgDwell, 120, 15) \/ DeviationAbove(m.avgFlight, 180, 15) THEN 1
    ELSE 0

WordCount(text) ==
    Cardinality({ i \in 1..Len(text) :
                    /\ text[i] \notin Whitespace
                    /\ (i = 1 \/ text[i - 1] \in Whitespace) })
ExpectedWpm(text, durationMs) ==
    IF durationMs <= 0 THEN 0
    ELSE (2 * WordCount(text) * 60000 + durationMs) \div (2 * durationMs)

C17_WpmFromWordCount ==
    [][(running /\ Evs # <<>> /\ stopCapture) =>
          metrics'.wpm = ExpectedWpm(editor, Evs[Len(Evs)].t)]_vars

\* ---------------------------------------------------------------------
\* C18: every metrics summary produced by calculateMetrics has finite
\* numeric fields, and for dwell, flight and DD an empty sample list has
\* mean 0 and standard deviation 0.
C18_FiniteMetrics ==
    metrics # EmptyObject =>
        /\ metrics.totalKeys \in Nat /\ metrics.duration \in Nat /\ metrics.wpm \in Nat
        /\ \A f \in {"avgDwell", "stdDwell", "avgFlight", "stdFlight", "avgDD", "stdDD"} :
              IsFinite(metrics[f])
        /\ metrics.dwellTimes = <<>> => metrics.avgDwell = Zero /\ metrics.stdDwell = Zero
        /\ metrics.flightTimes = <<>> => metrics.avgFlight = Zero /\ metrics.stdFlight = Zero
        /\ metrics.ddTimes = <<>> => metrics.avgDD = Zero /\ metrics.stdDD = Zero

\* A stopped session of two presses at different times and no release:
\* a DD sample, but no dwell and no flight sample.
C18_Witness ==
    /\ Stopped
    /\ UpIdx(Evs) = {}
    /\ metrics.avgDD # Zero
    /\ metrics.dwellTimes = <<>> /\ metrics.flightTimes = <<>>

\* ---------------------------------------------------------------------
\* C19: with the clock never running backwards every recorded timing
\* sample is non-negative: the dwell of each release event, the DD and UD
\* samples of each digraph, and the dwell, flight and DD values of the
\* metrics.
C19_NonNegativeSamples ==
    /\ \A u \in UpIdx(Evs) : Evs[u].dwell >= 0
    /\ \A i \in 1..Len(digraphs) :
          /\ \A k \in 1..Len(heap[digraphs[i].ref].DD) : heap[digraphs[i].ref].DD[k] >= 0
          /\ \A k \in 1..Len(heap[digraphs[i].ref].UD) : heap[digraphs[i].ref].UD[k] >= 0
    /\ metrics # EmptyObject =>
          /\ \A k \in 1..Len(metrics.dwellTimes) : metrics.dwellTimes[k] >= 0
          /\ \A k \in 1..Len(metrics.flightTimes) : metrics.flightTimes[k] >= 0
          /\ \A k \in 1..Len(metrics.ddTimes) : metrics.ddTimes[k] >= 0

\* A session started after the clock's origin and after an earlier
\* session, in which a key held since before is released.
C19_Witness ==
    /\ running
    /\ startedAt > 0
    /\ metrics # EmptyObject
    /\ \E u \in UpIdx(Evs) : Evs[u].dwell > 0
    /\ \E i \in 1..Len(digraphs) : \E k \in 1..Len(heap[digraphs[i].ref].DD) :
          heap[digraphs[i].ref].DD[k] > 0

\* ---------------------------------------------------------------------
\* C20: stopping a session whose digraphs hold fewer than 2 DD samples in
\* total produces an assessment, and its four classification lists are
\* empty.
TotalDD(dg, h) == Len(Flatten([i \in 1..Len(dg) |-> h[dg[i].ref].DD]))

C20_FewSamplesAssessed ==
    [][(running /\ stopCapture /\ TotalDD(digraphs, heap) < 2) =>
          /\ analysis'.shown
          /\ analysis'.result.digraphAnalysis =
                [fast |-> <<>>, slow |-> <<>>, consistent |-> <<>>, variable |-> <<>>]]_vars

\* Below the event limit the digraph map the handlers build is the one
\* DigraphSamples gives for the recorded events.
DigraphSamplesMatchHandlers ==
    Len(Evs) < EventLimit =>
        LET dgs == DigraphSamples(Evs)
        IN /\ Len(dgs) = Len(digraphs)
           /\ \A k \in 1..Len(dgs) :
                 /\ digraphs[k].key = dgs[k].key
                 /\ heap[digraphs[k].ref] = [NewDigraphStats EXCEPT !.DD = dgs[k].DD]

\* ------------------------------------------- claims on the assessment
\* Sums over a list of integer samples.
RECURSIVE SumInt(_)
SumInt(q) == IF q = <<>> THEN 0 ELSE Head(q) + SumInt(Tail(q))
SumSquares(q) == SumInt([i \in 1..Len(q) |-> q[i] * q[i]])
MeanBelow(q, t) == SumInt(q) < t * Len(q)
MeanAbove(q, t) == SumInt(q) > t * Len(q)
\* With n samples of sum S and sum of squares Q the variance is
\* (n*Q - S*S) / n^2 and the squared mean S*S / n^2, so that
\* 100 * std / mean < pct  iff  400 * (n*Q - S*S) < (pct/5)^2 * S*S.
\* Samples that are all 0 have no coefficient of variation (0 / 0): it is
\* neither below nor above a threshold.
SpreadTimes400(q) == 400 * (Len(q) * SumSquares(q) - SumInt(q) * SumInt(q))
CvBelow(q, pct) ==
    SumInt(q) > 0 /\ SpreadTimes400(q) < (pct \div 5) * (pct \div 5) * SumInt(q) * SumInt(q)
CvAbove(q, pct) ==
    SumInt(q) > 0 /\ SpreadTimes400(q) > (pct \div 5) * (pct \div 5) * SumInt(q) * SumInt(q)
InList(l, d) == \E k \in 1..Len(l) : l[k] = d

CvSquared(q) ==
    IF SumInt(q) = 0 THEN Zero
    ELSE RatMul(ToRat(10000),
                Rat(Len(q) * SumSquares(q) - SumInt(q) * SumInt(q), SumInt(q) * SumInt(q)))
\* x = max(0, 100 - c) for a number c >= 0 whose square is c2
IsHundredMinus(x, c, c2) ==
    /\ Ge(x, Zero) /\ Le(x, ToRat(100))
    /\ Sq(c) = c2
    /\ IF Lt(c, ToRat(100)) THEN MinusFrom(ToRat(100), x) = c ELSE x = Zero

ExpectedStyle(dwells, dds) ==
    [ dwell  |-> IF dwells # <<>> /\ MeanAbove(dwells, 180) THEN "heavy"
                 ELSE IF dwells = <<>> \/ MeanBelow(dwells, 80) THEN "light"
                 ELSE "balanced",
      suffix |-> IF CvAbove(dds, 30) THEN "unstable"
                 ELSE IF SumInt(dds) = 0 \/ CvBelow(dds, 15) THEN "highly stable"
                 ELSE "" ]

C25_AllPairsOnce ==
    /\ Len(profiles) < 2 => comparison = <<>>
    /\ comparison # <<>> =>
          LET n == Len(profiles)
              Line(i, j) ==
                  [ first   |-> profiles[i].name,
                    second  |-> profiles[j].name,
                    similar |-> toFixed1(Scale(calculateSimilarity(profiles[i].metrics,
                                                                   profiles[j].metrics),
                                               ToRat(100))) ]
          IN /\ 2 * Len(comparison) = n * (n - 1)
             /\ \A i \in 1..n, j \in 1..n :
                   i < j => Cardinality({ k \in 1..Len(comparison) :
                                            comparison[k] = Line(i, j) }) = 1
             /\ \A k \in 1..Len(comparison) : comparison[k].first # comparison[k].second
             /\ \A k \in 1..Len(comparison), l \in 1..Len(comparison) :
                   k # l => {comparison[k].first, comparison[k].second}
                            # {comparison[l].first, comparison[l].second}

\* Three profiles compared: three lines, one of them for the first
\* profile and the third.
C25_Witness ==
    /\ Len(profiles) = 3
    /\ Len(comparison) = 3
    /\ \E k \in 1..3 : /\ comparison[k].first = profiles[1].name
                       /\ comparison[k].second = profiles[3].name

\* ---------------------------------------------------------------------
\* C26: for the metrics of every saved profile the similarity of the
\* metrics with themselves is 1, and the similarity of two profiles'
\* metrics is the same in both orders and lies in [0, 1]; stated for the
\* profiles that compareProfiles has compared.
C26_SimilarityAlgebra ==
    \A i \in 1..Len(profiles), j \in 1..Len(profiles) :
        LET m1 == profiles[i].metrics
            m2 == profiles[j].metrics
        IN comparison # <<>> =>
           /\ calculateSimilarity(m1, m1) = ToRat(1)
           /\ calculateSimilarity(m1, m2) = calculateSimilarity(m2, m1)
           /\ Ge(calculateSimilarity(m1, m2), Zero)
           /\ Le(calculateSimilarity(m1, m2), ToRat(1))

\* ---------------------------------------------------------------------
\* C28: in every step that is not a reset (startCapture while idle, or
\* clearAll) each digraph stays in the map at its place and each of its
\* sample lists is either unchanged or extended by one sample at its end;
\* stopCapture, saveProfile, compareProfiles and the import leave the map
\* and every sample list as they are.
SampleLists == {"DD", "UD", "DU", "UU"}
AppendOnly ==
    \A i \in 1..Len(digraphs) :
        /\ i <= Len(digraphs')
        /\ digraphs'[i].key = digraphs[i].key
        /\ \A f \in SampleLists :
              LET old == heap[digraphs[i].ref][f]
                  new == heap'[digraphs'[i].ref][f]
              IN \/ new = old
                 \/ Len(new) = Len(old) + 1 /\ SubSeq(new, 1, Len(old)) = old
MapUnchanged ==
    /\ Len(digraphs') = Len(digraphs)
    /\ \A i \in 1..Len(digraphs) :
          /\ digraphs'[i].key = digraphs[i].key
          /\ heap'[digraphs'[i].ref] = heap[digraphs[i].ref]

C28_SamplesAppendOnly ==
    [][ /\ AppendOnly \/ (~running /\ startCapture) \/ clearAll
        /\ MapUnchanged \/ ~( \/ stopCapture
                               \/ \E a \in PromptAnswers : saveProfile(a)
                               \/ \E f \in ImportFiles : handleFileImport(f)
                               \/ compareProfiles ) ]_vars

\* Capture runs, a digraph holds two different DD samples, and two
\* profiles are stored and have been compared.
C28_Witness ==
    /\ running
    /\ \E i \in 1..Len(digraphs) :
          /\ Len(heap[digraphs[i].ref].DD) = 2
          /\ heap[digraphs[i].ref].DD[1] # heap[digraphs[i].ref].DD[2]
    /\ Len(profiles) = 2
    /\ comparison # <<>>

\* C27: the record saveProfiles writes for the store, read back by
\* loadProfiles, is the store itself: every profile saveProfile created
\* comes back equal field for field, its digraphs as [key, stats] pairs
\* in the same order with every sample list in the same order.
ProfileValue(p, h) ==
    [f \in DOMAIN p |->
        IF f = "events" THEN h[p.events]
        ELSE IF f = "digraphs"
             THEN [i \in 1..Len(p.digraphs) |-> <<p.digraphs[i].key, h[p.digraphs[i].ref]>>]
        ELSE p[f]]
StoreValue(ps, h) == [i \in 1..Len(ps) |-> ProfileValue(ps[i], h)]
C27_RoundTrip ==
    [][ \A a \in PromptAnswers :
            (saveProfile(a) /\ profiles' # profiles)
                => loadProfiles(storage') = StoreValue(profiles', heap') ]_vars

\* ---------------------------------------------------------------------
\* C29: a recorded press that follows press x with key y adds its DD
\* sample to an entry that already holds DD samples exactly when an
\* earlier pair of consecutive presses of the session had the same keys
\* x and y in the same order; pairs that differ in a key never share an
\* entry, whatever the lengths of the keys.
C29_EntryPerOrderedPair ==
    [][ ( /\ running /\ running' /\ events' = events
          /\ Len(heap'[events]) = Len(Evs) + 1
          /\ SubSeq(heap'[events], 1, Len(Evs)) = Evs
          /\ heap'[events][Len(Evs) + 1].type = "down"
          /\ DownIdx(Evs) # {} )
        => LET e == heap'[events][Len(Evs) + 1]
               prev == Evs[PrevDownBefore(Evs, Len(Evs) + 1)]
               samePairEarlier ==
                   \E i \in DownIdx(Evs) :
                       /\ PrevDownBefore(Evs, i) # 0
                       /\ Evs[PrevDownBefore(Evs, i)].key = prev.key
                       /\ Evs[i].key = e.key
           IN \A k \in DigraphKeys(digraphs') :
                 DDOf(digraphs', heap', k) # DDOf(digraphs, heap, k)
                    => (DDOf(digraphs, heap, k) # <<>> <=> samePairEarlier) ]_vars

\* ---------------------------------------------------------------------
\* C30: what a session ends with at stopCapture depends on its own input
\* only: the metrics are those the same events and text give on a page
\* that has just been opened, and below the event limit the DD lists are
\* those of the session's own consecutive presses, whatever sessions,
\* clears, saves or imports came before.
SessionDD(dg, h) ==
    { <<dg[i].key, h[dg[i].ref].DD>> : i \in { j \in 1..Len(dg) : h[dg[j].ref].DD # <<>> } }
ReplayedDD(evs) ==
    LET dgs == DigraphSamples(evs)
    IN { <<dgs[k].key, dgs[k].DD>> : k \in 1..Len(dgs) }
C30_ResultsFromSessionInput ==
    [][ (running /\ stopCapture)
           => /\ metrics' = calculateMetrics(Evs, editor, EmptyObject)
              /\ Len(Evs) < EventLimit => SessionDD(digraphs', heap') = ReplayedDD(Evs) ]_vars

\* ---------------------------------------------------------------------
\* C31: every assessment that is shown carries two identifiability
\* outputs: the 8-point score that decides the tier, and next to it the
\* weighted composite `identifiability` of the four sub-scores.
C31_TwoIdentifiabilityOutputs ==
    analysis.shown =>
        /\ "identifiabilityScore" \in DOMAIN analysis.result.summary
        /\ analysis.result.summary.identifiabilityScore \in 0..8
        /\ "identifiability" \in DOMAIN analysis.result

\* ---------------------------------------------------------------------
\* C32: while capture is idle and stays idle, a step other than clearAll
\* leaves the session as it is: key events in particular change neither
\* the event list nor the open-key table nor the digraph map.
C32_FrozenWhileIdle ==
    [][ (~running /\ ~running')
           => \/ /\ heap'[events'] = Evs
                 /\ keyStates' = keyStates
                 /\ MapUnchanged
              \/ clearAll ]_vars

\* A stopped session with a recorded digraph and a key still held, some
\* time after its last event: a key event now would add an event and a
\* sample if it were handled.
C32_Witness ==
    /\ Stopped
    /\ keyStates # {}
    /\ digraphs # <<>>
    /\ now - startedAt > Evs[Len(Evs)].t
    /\ keyCount < MaxKeyEvents

\* ---------------------------------------------------------------------
\* C33: the open-key table holds, once each, exactly the codes whose last
\* recorded event of the session is a press; every recorded release
\* follows, among the events of its code, directly on a press; and there
\* are never more releases than presses.
CodesOf(evs) == { evs[i].code : i \in 1..Len(evs) }
LastOfCode(evs, c) ==
    CHOOSE i \in 1..Len(evs) :
        evs[i].code = c /\ \A j \in (i + 1)..Len(evs) : evs[j].code # c
PrevOfCode(evs, i) == { j \in 1..(i - 1) : evs[j].code = evs[i].code }
C33_OpenKeysMatchEvents ==
    /\ { k.code : k \in keyStates } =
          { c \in CodesOf(Evs) : Evs[LastOfCode(Evs, c)].type = "down" }
    /\ \A k, o \in keyStates : k.code = o.code => k = o
    /\ \A i \in UpIdx(Evs) :
          /\ PrevOfCode(Evs, i) # {}
          /\ \E j \in PrevOfCode(Evs, i) :
                /\ \A l \in PrevOfCode(Evs, i) : l <= j
                /\ Evs[j].type = "down"
    /\ Cardinality(UpIdx(Evs)) <= Cardinality(DownIdx(Evs))

\* A key was pressed, released and pressed again while another key is
\* held: two presses and a release of one code, and two open keys.
C33_Witness ==
    /\ Cardinality(keyStates) = 2
    /\ \E u \in UpIdx(Evs) :
          /\ \E d \in DownIdx(Evs) : d > u /\ Evs[d].code = Evs[u].code
          /\ \E d \in DownIdx(Evs) : d < u /\ Evs[d].code # Evs[u].code

\* ---------------------------------------------------------------------
\* C34: the event list of a session, presses and releases together,
\* never holds more than EventLimit events.
C34_EventsWithinLimit == Len(Evs) <= EventLimit

\* ---------------------------------------------------------------------
\* C35: while capture runs below the event limit, a key that is up and
\* goes down is recorded as a press (unless the IME filter skips that
\* keydown itself), whatever happened to its earlier keyup; and no key
\* that is up is left in the open-key table of the running session.
C35_ReleasedKeyPressedAgain ==
    [][ \A e \in KeyEvents :
           ( /\ running /\ Len(Evs) < EventLimit
             /\ ~(imeToggle /\ e.isComposing)
             /\ PressKey(e) )
           => /\ Len(heap'[events']) = Len(Evs) + 1
              /\ heap'[events'][Len(Evs) + 1].type = "down"
              /\ heap'[events'][Len(Evs) + 1].code = e.code
              /\ { k.code : k \in keyStates' } \subseteq held' ]_vars

\* ---------------------------------------------------------------------
\* C36: startCapture from idle empties the event list, the open-key
\* table and the digraph map; clearAll empties these and the metrics and
\* ends idle; both leave every saved profile, and the record stored for
\* it, as they were.
SessionEmpty ==
    /\ heap'[events'] = <<>>
    /\ keyStates' = {}
    /\ digraphs' = <<>>
ProfilesKept ==
    /\ StoreValue(profiles', heap') = StoreValue(profiles, heap)
    /\ storage' = storage
C36_ResetsKeepProfiles ==
    [][ /\ (~running /\ startCapture) => (running' /\ SessionEmpty /\ ProfilesKept)
        /\ clearAll => (~running' /\ SessionEmpty /\ metrics' = EmptyObject /\ ProfilesKept)
      ]_vars

\* After clearAll: an idle page without session or metrics whose store
\* holds a saved profile with its events and a digraph sample.
C36_Witness ==
    /\ ~running /\ Evs = <<>> /\ metrics = EmptyObject /\ digraphs = <<>>
    /\ \E i \in 1..Len(profiles) :
          /\ "digraphs" \in DOMAIN profiles[i]
          /\ profiles[i].digraphs # <<>>
          /\ heap[profiles[i].events] # <<>>

\* ---------------------------------------------------------------------
\* C37: saveProfile appends exactly one profile when the metrics count at
\* least one press and the answer to the prompt leaves a name after
\* sanitizing, and changes nothing otherwise.  Metrics with a press come
\* only from stopping a session that recorded one and are gone after
\* clearAll, so nothing can be saved between clearAll and that stop.
NameLeft(a) ==
    /\ ~a.cancelled
    /\ \E i \in 1..Len(a.text) : a.text[i] \notin (NameStripped \cup Whitespace)
C37_SaveAddsOneOrNothing ==
    [][ /\ \A a \in PromptAnswers :
              saveProfile(a) =>
                 IF metrics # EmptyObject /\ metrics.totalKeys >= 1 /\ NameLeft(a)
                 THEN /\ Len(profiles') = Len(profiles) + 1
                      /\ SubSeq(profiles', 1, Len(profiles)) = profiles
                      /\ profiles'[Len(profiles')].metrics = metrics
                      /\ Len(storage') = Len(profiles')
                 ELSE profiles' = profiles /\ storage' = storage
        /\ clearAll => metrics' = EmptyObject
        /\ (~HasTotalKeys(metrics) /\ HasTotalKeys(metrics'))
              => (running /\ ~running' /\ DownIdx(Evs) # {}) ]_vars

\* A profile has been saved, the page was cleared afterwards, and a new
\* session is running: the store holds that one profile and there are no
\* metrics to save.
C37_Witness ==
    /\ Len(profiles) = 1
    /\ "events" \in DOMAIN profiles[1]
    /\ running
    /\ metrics = EmptyObject
    /\ Evs # <<>>

\* ---------------------------------------------------------------------
\* C38: the profile store always satisfies what loadProfiles enforces: at
\* most ProfileLimit profiles, each with a name of at most 100
\* characters, a timestamp and metrics.
ValidProfile(p) ==
    /\ {"name", "timestamp", "metrics"} \subseteq DOMAIN p
    /\ Len(p.name) <= 100
    /\ p.timestamp # 0
C38_StoreValid ==
    /\ Len(profiles) <= ProfileLimit
    /\ \A i \in 1..Len(profiles) : ValidProfile(profiles[i])

\* ---------------------------------------------------------------------
\* C39: every assessment scores from 2 to 8, never 0 or 1: what the
\* stability and the uniqueness bucket give together, the score less the
\* timing bucket, is at least 2 (and at most 6).
C39_ScoreAtLeastTwo ==
    analysis.shown =>
        LET score == analysis.result.summary.identifiabilityScore
        IN /\ score \in 2..8
           /\ score - TimingBucket(metrics) \in 2..6

\* The lowest score: a stability above 85, a uniqueness below 40 and an
\* average timing.
C39_Witness ==
    /\ analysis.shown
    /\ analysis.result.summary.identifiabilityScore = 2
    /\ analysis.result.stability = toFixed1(ToRat(86))
    /\ analysis.result.uniqueness = 39
    /\ TimingBucket(metrics) = 0

====
